---- MODULE Spec2Model ----
(***************************************************************************)
(* One run of the dashboard script src/app.py: the sidebar inputs are      *)
(* read, the symbol list is resolved, the market data is fetched, then the *)
(* single-symbol or the multi-symbol branch shapes the data, renders it    *)
(* and offers the CSV export.                                              *)
(*                                                                         *)
(* Text is a sequence of one-character strings.  A data frame is a record  *)
(* [index, columns, rows]: the row labels, the column names in order, and  *)
(* one record per row keyed by column name.  Prices are naturals, a        *)
(* missing value is NaN, dates are day numbers of January 2023.  A rolling *)
(* mean is the exact fraction [num, den]; 0/0 is the undefined mean.       *)
(***************************************************************************)
EXTENDS Integers, Sequences, FiniteSets, TLC

VARIABLES
    symbol_input,   \* line 14: the text of the symbol box
    show_ma,        \* line 19: the moving-average checkbox
    symbols,        \* line 15: the resolved symbol list
    raw_data,       \* line 30: what load_stock_data returned
    df,             \* lines 37-38, 86-91: the table
    ma,             \* line 67: the moving average
    csv,            \* lines 81, 126: the export
    out,            \* what the page shows, in order of the st.* calls
    fetch_calls,    \* calls of load_stock_data (line 30)
    pc              \* where the script is

vars == <<symbol_input, show_ma, symbols, raw_data, df, ma, csv, out,
          fetch_calls, pc>>

\* ------------------------------------------------------------- bounds
MaxInputLen == 3
MaxRows == 2
MaxSeriesLen == 8
FirstDay == 3

\* ---------------------------------------------------------- constants
window == 7
head_rows == 5
NaN == -1

Alphabet == {"a", "B", " ", ","}
Whitespace == {" "}
Prices == {1, 2, NaN}

Range(s) == {s[i] : i \in 1..Len(s)}

\* ------------------------------------------------------ text (str)
ToUpperChar(c) ==
    CASE c = "a" -> "A"
      [] c = "b" -> "B"
      [] OTHER -> c

upper(s) == [i \in 1..Len(s) |-> ToUpperChar(s[i])]

RECURSIVE lstrip(_)
lstrip(s) == IF s # <<>> /\ Head(s) \in Whitespace THEN lstrip(Tail(s)) ELSE s

RECURSIVE rstrip(_)
rstrip(s) ==
    IF s # <<>> /\ s[Len(s)] \in Whitespace
    THEN rstrip(SubSeq(s, 1, Len(s) - 1))
    ELSE s

strip(s) == rstrip(lstrip(s))

RECURSIVE split(_, _)
split(s, sep) ==
    IF \A i \in 1..Len(s) : s[i] # sep
    THEN <<s>>
    ELSE LET k == CHOOSE i \in 1..Len(s) :
                      s[i] = sep /\ \A j \in 1..(i - 1) : s[j] # sep
         IN  <<SubSeq(s, 1, k - 1)>> \o split(SubSeq(s, k + 1, Len(s)), sep)

\* The comprehension without its "if sym.strip()" filter.
ResolveSymbols_KeepBlank(text) ==
    LET parts == split(text, ",")
    IN  [i \in 1..Len(parts) |-> upper(strip(parts[i]))]

\* symbols = [sym.strip().upper() for sym in symbol_input.split(",") if sym.strip()]
ResolveSymbols(text) ==
    LET kept == SelectSeq(split(text, ","), LAMBDA sym : strip(sym) # <<>>)
    IN  [i \in 1..Len(kept) |-> upper(strip(kept[i]))]

DigitChar(d) == <<"0", "1", "2", "3", "4", "5", "6", "7", "8", "9">>[d + 1]

RECURSIVE digits(_)
digits(n) ==
    IF n < 10 THEN <<DigitChar(n)>>
    ELSE digits(n \div 10) \o <<DigitChar(n % 10)>>

\* ------------------------------------------------------ data frames
OHLCV == <<"Open", "High", "Low", "Close", "Volume">>

EmptyFrame == [index |-> <<>>, columns |-> <<>>, rows |-> <<>>]

RangeIndex(n) == [i \in 1..n |-> i - 1]

\* What the data source returns for one symbol: OHLCV rows labelled by date.
Series(obs) ==
    [index   |-> [i \in 1..Len(obs) |-> FirstDay + i - 1],
     columns |-> OHLCV,
     rows    |-> obs]

copy(frame) == frame

\* reset_index that loses the date labels: the column holds row positions.
reset_index_positions(frame) ==
    [index   |-> RangeIndex(Len(frame.rows)),
     columns |-> <<"Date">> \o frame.columns,
     rows    |-> [i \in 1..Len(frame.rows) |->
                     ("Date" :> (i - 1)) @@ frame.rows[i]]]

\* frame.reset_index(inplace=True): the date labels become the first column.
reset_index(frame) ==
    [index   |-> RangeIndex(Len(frame.rows)),
     columns |-> <<"Date">> \o frame.columns,
     rows    |-> [i \in 1..Len(frame.rows) |->
                     ("Date" :> frame.index[i]) @@ frame.rows[i]]]

\* frame[name] = values: an existing column is overwritten, a new one is
\* added after the last column.
setitem(frame, name, values) ==
    [index   |-> frame.index,
     columns |-> IF name \in Range(frame.columns) THEN frame.columns
                 ELSE Append(frame.columns, name),
     rows    |-> [i \in 1..Len(frame.rows) |->
                     (name :> values[i]) @@ frame.rows[i]]]

\* pd.concat([a, b], ignore_index=True)
concat(a, b) ==
    LET cols == a.columns \o
                SelectSeq(b.columns, LAMBDA c : c \notin Range(a.columns))
        fill(row) == [c \in Range(cols) |->
                         IF c \in DOMAIN row THEN row[c] ELSE NaN]
        all == a.rows \o b.rows
    IN  [index   |-> RangeIndex(Len(all)),
         columns |-> cols,
         rows    |-> [i \in 1..Len(all) |-> fill(all[i])]]

\* frame[[c1, c2, ...]]
getitem(frame, cols) ==
    [index   |-> frame.index,
     columns |-> cols,
     rows    |-> [i \in 1..Len(frame.rows) |->
                     [c \in Range(cols) |-> frame.rows[i][c]]]]

column(frame, name) == [i \in 1..Len(frame.rows) |-> frame.rows[i][name]]

Min(a, b) == IF a < b THEN a ELSE b

\* frame.head(): the first five rows.
head(frame) ==
    LET n == Min(head_rows, Len(frame.rows))
    IN  [index   |-> SubSeq(frame.index, 1, n),
         columns |-> frame.columns,
         rows    |-> SubSeq(frame.rows, 1, n)]

RECURSIVE SumOver(_, _)
SumOver(values, idx) ==
    IF idx = {} THEN 0
    ELSE LET j == CHOOSE k \in idx : TRUE
         IN  values[j] + SumOver(values, idx \ {j})

UndefinedMean == [num |-> 0, den |-> 0]

\* The rolling mean with min_periods=1: defined from the first position on.
rolling_mean_min_periods_1(values, w) ==
    [i \in 1..Len(values) |->
        LET lo == IF i - w + 1 < 1 THEN 1 ELSE i - w + 1
            obs == {j \in lo..i : values[j] # NaN}
            nobs == Cardinality(obs)
        IN  IF nobs >= 1
            THEN [num |-> SumOver(values, obs), den |-> nobs]
            ELSE UndefinedMean]

\* values.rolling(window=w).mean(): min_periods defaults to the window, and
\* only the non-missing values of the window are counted.
rolling_mean(values, w) ==
    [i \in 1..Len(values) |->
        LET lo == IF i - w + 1 < 1 THEN 1 ELSE i - w + 1
            obs == {j \in lo..i : values[j] # NaN}
            nobs == Cardinality(obs)
        IN  IF nobs >= w
            THEN [num |-> SumOver(values, obs), den |-> nobs]
            ELSE UndefinedMean]

\* ------------------------------------------------------ CSV export
\* A missing price written as zero (na_rep / fillna(0)).
FormatFloat_ZeroForMissing(v) ==
    IF v = NaN THEN <<"0", ".", "0">> ELSE digits(v) \o <<".", "0">>

FormatFloat(v) == IF v = NaN THEN <<>> ELSE digits(v) \o <<".", "0">>

FormatInt(v) == IF v = NaN THEN <<>> ELSE digits(v)

FormatDate(d) ==
    <<"2", "0", "2", "3", "-", "0", "1", "-">>
        \o (IF d < 10 THEN <<"0">> ELSE <<>>) \o digits(d)

FormatCell(col, v) ==
    CASE col = "Date" -> FormatDate(v)
      [] col = "Symbol" -> v
      [] col = "Volume" -> FormatInt(v)
      [] OTHER -> FormatFloat(v)

\* frame.to_csv(index=False): the header is the column names in the frame's
\* column order, then one line per row with the cells in that order.
to_csv(frame) ==
    [header |-> frame.columns,
     lines  |-> [i \in 1..Len(frame.rows) |->
                    [j \in 1..Len(frame.columns) |->
                        FormatCell(frame.columns[j],
                                   frame.rows[i][frame.columns[j]])]]]

StockDataCsv ==
    <<"_", "s", "t", "o", "c", "k", "_", "d", "a", "t", "a", ".", "c", "s", "v">>

single_file_name(syms) == syms[1] \o StockDataCsv

multi_file_name == <<"m", "u", "l", "t", "i">> \o StockDataCsv

\* ------------------------------------------------------ rendered output
Emit(kind, label, data) == [kind |-> kind, label |-> label, data |-> data]

Trace(name, x, y) == [name |-> name, x |-> x, y |-> y]

\* ------------------------------------------------------ the data source
ObsPool ==
    { [Open |-> 1, High |-> 4, Low |-> 0, Close |-> 2, Volume |-> 30],
      [Open |-> NaN, High |-> NaN, Low |-> NaN, Close |-> NaN, Volume |-> 0] }

SeriesPool == { Series(obs) : obs \in UNION {[1..n -> ObsPool] : n \in 0..MaxRows} }

\* A long series whose close prices vary; the other fields follow the close.
CloseSeries(closes) ==
    Series([i \in 1..Len(closes) |->
               [Open |-> closes[i], High |-> closes[i], Low |-> closes[i],
                Close |-> closes[i], Volume |-> 10 * i]])

LongSeriesPool ==
    { CloseSeries(c) : c \in UNION {[1..n -> Prices] : n \in 0..MaxSeriesLen} }

\* What load_stock_data can return: one frame for a single symbol, a frame
\* per fetched symbol otherwise (a requested symbol may be missing).
Responses(syms) ==
    IF Len(syms) = 1 THEN SeriesPool
    ELSE UNION { [S -> SeriesPool] : S \in SUBSET Range(syms) }

\* ------------------------------------------------------ the script
Init ==
    /\ symbol_input = <<>>
    /\ show_ma = TRUE
    /\ symbols = <<>>
    /\ raw_data = EmptyFrame
    /\ df = EmptyFrame
    /\ ma = <<>>
    /\ csv = to_csv(EmptyFrame)
    /\ out = <<>>
    /\ fetch_calls = 0
    /\ pc = "start"

\* Lines 13-19: the sidebar inputs and the resolved symbol list.
ReadInputs ==
    /\ pc = "start"
    /\ \E text \in UNION {[1..n -> Alphabet] : n \in 0..MaxInputLen},
          flag \in BOOLEAN :
          /\ symbol_input' = text
          /\ show_ma' = flag
          /\ symbols' = ResolveSymbols(text)
    /\ pc' = "check"
    /\ UNCHANGED <<raw_data, df, ma, csv, out, fetch_calls>>

\* Lines 128-129: no symbol, only the prompt.
Warn ==
    /\ pc = "check"
    /\ symbols = <<>>
    /\ out' = Append(out, Emit("warning", "enter a symbol", <<>>))
    /\ pc' = "done"
    /\ UNCHANGED <<symbol_input, show_ma, symbols, raw_data, df, ma, csv,
                   fetch_calls>>

\* The fetch called without the "if symbols" test.
FetchOk_Unguarded ==
    /\ pc = "check"
    /\ \E r \in Responses(symbols) : raw_data' = r
    /\ fetch_calls' = fetch_calls + 1
    /\ pc' = "process"
    /\ UNCHANGED <<symbol_input, show_ma, symbols, df, ma, csv, out>>

\* Lines 27-30: the fetch returns.
FetchOk ==
    /\ pc = "check"
    /\ symbols # <<>>
    /\ \E r \in Responses(symbols) : raw_data' = r
    /\ fetch_calls' = fetch_calls + 1
    /\ pc' = "process"
    /\ UNCHANGED <<symbol_input, show_ma, symbols, df, ma, csv, out>>

\* The except branch without st.stop(): the script goes on after the error.
FetchFail_NoStop ==
    /\ pc = "check"
    /\ symbols # <<>>
    /\ fetch_calls' = fetch_calls + 1
    /\ out' = Append(out, Emit("error", "Failed to fetch stock data", <<>>))
    /\ pc' = "process"
    /\ UNCHANGED <<symbol_input, show_ma, symbols, raw_data, df, ma, csv>>

\* Lines 27-33: the fetch raises; st.error, then st.stop().
FetchFail ==
    /\ pc = "check"
    /\ symbols # <<>>
    /\ fetch_calls' = fetch_calls + 1
    /\ out' = Append(out, Emit("error", "Failed to fetch stock data", <<>>))
    /\ pc' = "stopped"
    /\ UNCHANGED <<symbol_input, show_ma, symbols, raw_data, df, ma, csv>>

\* Lines 36-40: the single-symbol table and its preview.
ShapeSingle ==
    /\ pc = "process"
    /\ Len(symbols) = 1
    /\ df' = reset_index(copy(raw_data))
    /\ out' = out \o << Emit("subheader", "Raw Data Preview", <<>>),
                        Emit("dataframe", "preview", head(df')) >>
    /\ pc' = "single_charts"
    /\ UNCHANGED <<symbol_input, show_ma, symbols, raw_data, ma, csv,
                   fetch_calls>>

\* Lines 42-78: candlestick, closing price with the optional 7-day moving
\* average, volume.
ChartsSingle ==
    /\ pc = "single_charts"
    /\ ma' = IF show_ma THEN rolling_mean(column(df, "Close"), window) ELSE ma
    /\ LET date == column(df, "Date")
           candle == << Trace(symbols[1], date,
                              [open  |-> column(df, "Open"),
                               high  |-> column(df, "High"),
                               low   |-> column(df, "Low"),
                               close |-> column(df, "Close")]) >>
           line == << Trace("Close", date, column(df, "Close")) >>
                   \o (IF show_ma THEN << Trace("7-Day MA", date, ma') >>
                       ELSE <<>>)
           vol == << Trace("Volume", date, column(df, "Volume")) >>
       IN  out' = out \o
               << Emit("subheader", "Candlestick Chart", symbols[1]),
                  Emit("plotly_chart", "Candlestick Chart", candle),
                  Emit("subheader", "Closing Price", symbols[1]),
                  Emit("plotly_chart", "Closing Price Trend", line),
                  Emit("subheader", "Volume Traded", <<>>),
                  Emit("plotly_chart", "Trading Volume", vol) >>
    /\ pc' = "single_export"
    /\ UNCHANGED <<symbol_input, show_ma, symbols, raw_data, df, csv,
                   fetch_calls>>

\* Lines 80-82: the single-symbol CSV export.
ExportSingle ==
    /\ pc = "single_export"
    /\ csv' = to_csv(df)
    /\ out' = Append(out, Emit("download_button", single_file_name(symbols),
                               csv'))
    /\ pc' = "done"
    /\ UNCHANGED <<symbol_input, show_ma, symbols, raw_data, df, ma,
                   fetch_calls>>

\* Lines 86-91: the loop over the requested symbols.  raw_data[symbol] of a
\* symbol the fetch did not return raises KeyError and ends the loop.
RECURSIVE reshape_loop(_, _, _)
reshape_loop(acc, raw, syms) ==
    IF syms = <<>> THEN [df |-> acc, raised |-> FALSE]
    ELSE LET symbol == Head(syms)
         IN  IF symbol \notin DOMAIN raw
             THEN [df |-> acc, raised |-> TRUE]
             ELSE LET stock_df == copy(raw[symbol])
                      tagged == setitem(stock_df, "Symbol",
                                    [i \in 1..Len(stock_df.rows) |-> symbol])
                      dated == setitem(tagged, "Date", tagged.index)
                  IN  reshape_loop(concat(acc, dated), raw, Tail(syms))

\* Lines 84-91: the multi-symbol table.  An exception nobody catches ends
\* the run; the page shows the exception.
ShapeMulti ==
    /\ pc = "process"
    /\ Len(symbols) # 1
    /\ LET r == reshape_loop(EmptyFrame, raw_data, symbols)
       IN  /\ df' = r.df
           /\ IF r.raised
              THEN /\ out' = Append(out, Emit("exception", "KeyError", <<>>))
                   /\ pc' = "crashed"
              ELSE /\ out' = out
                   /\ pc' = "multi_preview"
    /\ UNCHANGED <<symbol_input, show_ma, symbols, raw_data, ma, csv,
                   fetch_calls>>

\* Lines 93-94: the preview of the multi-symbol table.
PreviewMulti ==
    /\ pc = "multi_preview"
    /\ out' = out \o
           << Emit("subheader", "Raw Data Preview", <<>>),
              Emit("dataframe", "preview",
                   head(getitem(df, <<"Date", "Symbol", "Open", "High", "Low",
                                      "Close", "Volume">>))) >>
    /\ pc' = "multi_charts"
    /\ UNCHANGED <<symbol_input, show_ma, symbols, raw_data, df, ma, csv,
                   fetch_calls>>

\* Lines 96-123: closing price and volume, one trace per requested symbol.
ChartsMulti ==
    /\ pc = "multi_charts"
    /\ LET traces(field) ==
               [i \in 1..Len(symbols) |->
                   LET symbol_data == copy(raw_data[symbols[i]])
                   IN  Trace(symbols[i], symbol_data.index,
                             column(symbol_data, field))]
       IN  out' = out \o
               << Emit("subheader", "Closing Price Trend Comparison", <<>>),
                  Emit("plotly_chart", "Closing Price Over Time",
                       traces("Close")),
                  Emit("subheader", "Volume Comparison", <<>>),
                  Emit("plotly_chart", "Volume Traded Over Time",
                       traces("Volume")) >>
    /\ pc' = "multi_export"
    /\ UNCHANGED <<symbol_input, show_ma, symbols, raw_data, df, ma, csv,
                   fetch_calls>>

\* Lines 125-127: the multi-symbol CSV export.
ExportMulti ==
    /\ pc = "multi_export"
    /\ csv' = to_csv(df)
    /\ out' = Append(out, Emit("download_button", multi_file_name, csv'))
    /\ pc' = "done"
    /\ UNCHANGED <<symbol_input, show_ma, symbols, raw_data, df, ma,
                   fetch_calls>>

Next ==
    \/ ReadInputs
    \/ Warn
    \/ FetchOk
    \/ FetchFail
    \/ ShapeSingle
    \/ ChartsSingle
    \/ ExportSingle
    \/ ShapeMulti
    \/ PreviewMulti
    \/ ChartsMulti
    \/ ExportMulti

Spec == Init /\ [][Next]_vars

\* The single-symbol branch on long series: the state at line 36 after the
\* fetch of one symbol returned.
InitLong ==
    /\ symbol_input = <<"a">>
    /\ show_ma \in BOOLEAN
    /\ symbols = ResolveSymbols(symbol_input)
    /\ raw_data \in LongSeriesPool
    /\ df = EmptyFrame
    /\ ma = <<>>
    /\ csv = to_csv(EmptyFrame)
    /\ out = <<>>
    /\ fetch_calls = 1
    /\ pc = "process"

NextSingle ==
    \/ ShapeSingle
    \/ ChartsSingle
    \/ ExportSingle

SpecLong == InitLong /\ [][NextSingle]_vars

\* ====================================================== properties
Kinds(events) == [i \in 1..Len(events) |-> events[i].kind]

CountKind(kind) == Cardinality({i \in 1..Len(out) : out[i].kind = kind})

Rendered == {"subheader", "dataframe", "plotly_chart", "download_button"}

SetMin(S) == CHOOSE x \in S : \A y \in S : x <= y

SetMax(S) == CHOOSE x \in S : \A y \in S : x >= y

RECURSIVE SortedSeq(_)
SortedSeq(S) == IF S = {} THEN <<>> ELSE <<SetMin(S)>> \o SortedSeq(S \ {SetMin(S)})

LowerCase == {"a", "b"}

\* The entries of a comma-separated text, by position: the stretches between
\* consecutive commas that hold a non-blank character, each cut down to the
\* span from its first to its last non-blank character and upper-cased.
EntriesOf(text) ==
    LET n == Len(text)
        cuts == {0, n + 1} \union {i \in 1..n : text[i] = ","}
        solid(c) == {i \in (c + 1)..n :
                        /\ text[i] \notin Whitespace \union {","}
                        /\ \A j \in (c + 1)..i : text[j] # ","}
        starts == SortedSeq({c \in cuts : solid(c) # {}})
        entry(c) == [k \in 1..(SetMax(solid(c)) - SetMin(solid(c)) + 1) |->
                        LET ch == text[SetMin(solid(c)) + k - 1]
                        IN  IF ch = "a" THEN "A" ELSE ch]
    IN  [k \in 1..Len(starts) |-> entry(starts[k])]

\* C9: the resolved symbol list is the comma-separated input split on commas,
\* each entry trimmed and upper-cased, blank entries dropped, order kept;
\* every entry is non-empty, upper-case and has no blank at either end; the
\* list is empty exactly when the input has no non-blank entry.
C9_ResolvedSymbols ==
    pc # "start" =>
        /\ symbols = EntriesOf(symbol_input)
        /\ \A i \in 1..Len(symbols) :
              /\ symbols[i] # <<>>
              /\ symbols[i][1] \notin Whitespace
              /\ symbols[i][Len(symbols[i])] \notin Whitespace
              /\ \A k \in 1..Len(symbols[i]) :
                    symbols[i][k] \notin LowerCase \union {","}
        /\ (symbols = <<>>) <=>
              (\A i \in 1..Len(symbol_input) :
                  symbol_input[i] \in Whitespace \union {","})

\* A blank entry was dropped, another was trimmed and upper-cased.
C9_Witness ==
    /\ pc = "check"
    /\ symbol_input = <<" ", "a", ",">>
    /\ symbols = << <<"A">> >>

\* C6: with an empty resolved list nothing is fetched, shaped, rendered or
\* exported and the only output is one warning; the fetch is called only
\* with a non-empty list.
C6_EmptyListOnlyPrompts ==
    /\ (pc # "start" /\ symbols = <<>>) =>
          /\ fetch_calls = 0
          /\ raw_data = EmptyFrame
          /\ df = EmptyFrame
          /\ csv = to_csv(EmptyFrame)
          /\ pc \in {"check", "done"}
          /\ pc = "check" => out = <<>>
          /\ pc = "done" => Kinds(out) = <<"warning">>
    /\ fetch_calls > 0 => symbols # <<>>

\* An input of blanks and commas only was answered with the prompt.
C6_Witness ==
    /\ pc = "done"
    /\ symbols = <<>>
    /\ symbol_input # <<>>
    /\ Kinds(out) = <<"warning">>

\* C5: when the fetch raises, exactly one error message is emitted and the
\* run stops there: no preview, no chart and no export follows.
C5_FetchFailureStops ==
    /\ CountKind("error") > 0 =>
          /\ Kinds(out) = <<"error">>
          /\ pc = "stopped"
    /\ pc = "stopped" =>
          /\ Kinds(out) = <<"error">>
          /\ fetch_calls = 1
          /\ df = EmptyFrame
          /\ csv = to_csv(EmptyFrame)
          /\ ~ ENABLED Next

\* The fetch raised for a request of two symbols.
C5_Witness ==
    /\ pc = "stopped"
    /\ Len(symbols) = 2
    /\ CountKind("error") = 1

SingleShaped == {"single_charts", "single_export", "done"}

\* C3 as claimed: the single-symbol table has one row per observation in
\* date order, each with an explicit date and a symbol tag equal to the
\* requested symbol.
C3_Original ==
    (Len(symbols) = 1 /\ pc \in SingleShaped) =>
        /\ Len(df.rows) = Len(raw_data.rows)
        /\ \A i \in 1..Len(df.rows) :
              /\ "Date" \in DOMAIN df.rows[i]
              /\ df.rows[i]["Date"] = raw_data.index[i]
              /\ "Symbol" \in DOMAIN df.rows[i]
              /\ df.rows[i]["Symbol"] = symbols[1]

\* C3 amended: the single-symbol table has one row per observation of the
\* fetched series, in the same date order, with the observation's values and
\* an explicit date; its rows carry no symbol field.
C3_SingleTable ==
    (Len(symbols) = 1 /\ pc \in SingleShaped) =>
        /\ df.columns = <<"Date", "Open", "High", "Low", "Close", "Volume">>
        /\ Len(df.rows) = Len(raw_data.rows)
        /\ \A i \in 1..Len(df.rows) :
              /\ DOMAIN df.rows[i] = Range(df.columns)
              /\ df.rows[i]["Date"] = raw_data.index[i]
              /\ \A c \in Range(OHLCV) : df.rows[i][c] = raw_data.rows[i][c]
        /\ \A i, j \in 1..Len(df.rows) :
              i < j => df.rows[i]["Date"] < df.rows[j]["Date"]

\* A single-symbol table of two different observations was exported.
C3_Witness ==
    /\ pc = "done"
    /\ Len(symbols) = 1
    /\ Len(df.rows) = 2
    /\ df.rows[1]["Close"] # df.rows[2]["Close"]

MAShown == show_ma /\ Len(symbols) = 1 /\ pc \in {"single_export", "done"}

\* C4: with the flag set the moving average has the length of the series, is
\* undefined at the first six positions and from the seventh on is the mean
\* of the seven close values ending there (undefined when one of them is
\* missing); for a constant close it is that constant.
C4_MovingAverage ==
    MAShown =>
        LET close == column(df, "Close")
        IN  /\ Len(ma) = Len(raw_data.rows)
            /\ \A i \in 1..Len(ma) :
                  IF i <= 6 \/ \E j \in (i - 6)..i : close[j] = NaN
                  THEN ma[i].den = 0
                  ELSE /\ ma[i].den > 0
                       /\ 7 * ma[i].num =
                             ma[i].den * (close[i - 6] + close[i - 5]
                                 + close[i - 4] + close[i - 3] + close[i - 2]
                                 + close[i - 1] + close[i])
                       /\ \A c \in Prices :
                             (\A j \in (i - 6)..i : close[j] = c) =>
                                 ma[i].num = c * ma[i].den
            /\ \E i \in 1..Len(out) :
                  /\ out[i].label = "Closing Price Trend"
                  /\ Len(out[i].data) = 2
                  /\ out[i].data[2].y = ma

\* A series of eight closes has two defined averages, which differ.
C4_Witness ==
    /\ MAShown
    /\ pc = "done"
    /\ Len(ma) = 8
    /\ ma[6].den = 0
    /\ ma[7].den = 7
    /\ ma[8].den = 7
    /\ ma[7].num # ma[8].num

MultiShaped == {"multi_preview", "multi_charts", "multi_export", "done"}

\* The reshape loop was run for a request of two or more symbols.
MultiAttempted == Len(symbols) >= 2 /\ pc \in MultiShaped \union {"crashed"}

Missing == {s \in Range(symbols) : s \notin DOMAIN raw_data}

TaggedRows(symbol, frame) ==
    [i \in 1..Len(frame.rows) |->
        ("Symbol" :> symbol) @@ ("Date" :> frame.index[i]) @@ frame.rows[i]]

\* The rows of the fetched symbols, in request order, each tagged.
RECURSIVE ExpectedRows(_, _)
ExpectedRows(syms, raw) ==
    IF syms = <<>> THEN <<>>
    ELSE (IF Head(syms) \in DOMAIN raw
          THEN TaggedRows(Head(syms), raw[Head(syms)])
          ELSE <<>>) \o ExpectedRows(Tail(syms), raw)

Exported == pc = "done" /\ CountKind("download_button") = 1

Download == out[CHOOSE i \in 1..Len(out) : out[i].kind = "download_button"]

\* C1 as claimed: in a multi-symbol request a requested symbol missing from
\* the fetch result contributes no row and raises no error; the request
\* still renders and exports the rows of the fetched symbols.
C1_Claim ==
    (MultiAttempted /\ Missing # {}) =>
        /\ pc # "crashed"
        /\ CountKind("exception") = 0
        /\ \A i \in 1..Len(df.rows) : df.rows[i]["Symbol"] \notin Missing
        /\ pc = "done" =>
              /\ Exported
              /\ Len(csv.lines) = Len(ExpectedRows(symbols, raw_data))

\* C2 as claimed: for every multi-symbol request the table is the
\* concatenation of the fetched symbols' series in request order, every row
\* tagged with its symbol, dates in their original order.
C2_Claim ==
    MultiAttempted =>
        /\ pc # "crashed"
        /\ df.rows = ExpectedRows(symbols, raw_data)

\* C7 as claimed: the multi-symbol export has the header
\* Date,Symbol,Open,High,Low,Close,Volume and the name multi_stock_data.csv;
\* the single-symbol export has that header without Symbol and the name
\* <SYMBOL>_stock_data.csv.
C7_Claim ==
    Exported =>
        IF Len(symbols) = 1
        THEN /\ Download.data.header =
                    <<"Date", "Open", "High", "Low", "Close", "Volume">>
             /\ Download.label = symbols[1] \o StockDataCsv
        ELSE /\ Download.data.header =
                    <<"Date", "Symbol", "Open", "High", "Low", "Close",
                      "Volume">>
             /\ Download.label = <<"m", "u", "l", "t", "i">> \o StockDataCsv

RowSymbol(row) == IF "Symbol" \in DOMAIN row THEN row["Symbol"] ELSE symbols[1]

\* C8 as claimed: in the table of any request the input normalization can
\* produce, every fetched symbol has exactly one row per date the source
\* returned for it, and no (symbol, date) pair occurs twice.
C8_Claim ==
    (symbols # <<>> /\ pc \in SingleShaped \union MultiShaped) =>
        \A i, j \in 1..Len(df.rows) :
            (/\ RowSymbol(df.rows[i]) = RowSymbol(df.rows[j])
             /\ df.rows[i]["Date"] = df.rows[j]["Date"]) => i = j

DigitValue(c) == CHOOSE d \in 0..9 : DigitChar(d) = c

RECURSIVE ParseNat(_)
ParseNat(s) ==
    IF s = <<>> THEN 0
    ELSE 10 * ParseNat(SubSeq(s, 1, Len(s) - 1)) + DigitValue(s[Len(s)])

ParseFloat(s) == IF s = <<>> THEN NaN ELSE ParseNat(SubSeq(s, 1, Len(s) - 2))

ParseInt(s) == IF s = <<>> THEN NaN ELSE ParseNat(s)

ParseDate(s) == ParseNat(SubSeq(s, 9, Len(s)))

ParseCell(col, s) ==
    CASE col = "Date" -> ParseDate(s)
      [] col = "Symbol" -> s
      [] col = "Volume" -> ParseInt(s)
      [] OTHER -> ParseFloat(s)

\* Reading an export back: one record per line, keyed by the header.
read_csv(text) ==
    { [c \in Range(text.header) |->
          ParseCell(c, text.lines[i][CHOOSE j \in 1..Len(text.header) :
                                         text.header[j] = c])] :
      i \in 1..Len(text.lines) }

NoSymbol == <<>>

Tuple(symbol, row) ==
    <<symbol, row["Date"], row["Open"], row["High"], row["Low"], row["Close"],
      row["Volume"]>>

\* C10 as claimed: for every table, single-symbol or multi-symbol, reading
\* the export back yields the table's set of
\* (symbol, date, open, high, low, close, volume) tuples.
C10_Original ==
    Exported =>
        { Tuple(IF "Symbol" \in DOMAIN r THEN r["Symbol"] ELSE NoSymbol, r) :
              r \in read_csv(csv) }
            = { Tuple(RowSymbol(df.rows[i]), df.rows[i]) :
                    i \in 1..Len(df.rows) }

\* C10 amended: reading the export back yields the set of the table's rows
\* over the exported columns: (symbol, date, open, high, low, close, volume)
\* for a multi-symbol table, (date, open, high, low, close, volume) for a
\* single-symbol table, whose export holds no symbol.
C10_RoundTrip ==
    Exported =>
        /\ Len(csv.lines) = Len(df.rows)
        /\ read_csv(csv) = Range(df.rows)
        /\ ("Symbol" \in Range(csv.header)) <=> (Len(symbols) # 1)
        /\ Range(csv.header) \ {"Symbol"} =
              {"Date", "Open", "High", "Low", "Close", "Volume"}

\* A single-symbol table with a full row and a row of missing prices was
\* exported.
C10_Witness ==
    /\ Exported
    /\ Len(symbols) = 1
    /\ Len(df.rows) = 2
    /\ df.rows[1]["Close"] = NaN
    /\ df.rows[2]["Close"] # NaN
====
